---- MODULE Spec2Model ----
(***************************************************************************)
(* A model of the egress regression-testing library: the Entry / Artifact  *)
(* data model and the recursive comparison engine (src/src/artifact.rs),   *)
(* and the snapshot store with its configuration bootstrap                 *)
(* (src/src/lib.rs).                                                       *)
(*                                                                         *)
(* Representation.                                                         *)
(*   f64        a fixed-point integer counting units of 1/Scale; the       *)
(*              arithmetic of compare_float is done exactly on these       *)
(*              (f64 rounding is not modelled).                            *)
(*   Option<T>  [some |-> BOOLEAN, val |-> T].                             *)
(*   String     a TLA+ string; a formatted path is the sequence of the     *)
(*              pieces format! concatenates.                               *)
(*   serde_json::Value   [kind |-> ..., v |-> ...]                         *)
(*   Entry      [tag |-> "Str" | "Json" | "Bytes" | "Artifact", payload]   *)
(*   Artifact   [entries |-> BTreeMap], a BTreeMap being a function from   *)
(*              its key set; it is iterated in the byte order of the keys, *)
(*              which KeyOrder lists for the keys of the model.            *)
(***************************************************************************)
EXTENDS Integers, Sequences, FiniteSets, TLC

VARIABLES
    prefix,                \* diff_json: the path the two Values are compared at
    json, json_ref,        \* diff_json: the produced and the reference Value
    self_art, ref_art,     \* compare_against_reference: self and reference
    atol, rtol,            \* the tolerances handed to the comparison
    mismatches,            \* the Vec<Mismatch> a comparison returns
    doc,                   \* a serialized Artifact (the JSON document)
    step,                  \* position of a comparison; the life of an Egress context
    config_toml,           \* the Egress.toml file of the config directory
    baseline,              \* the baseline file of each artifact name
    artifacts,             \* Egress::artifacts, the artifacts claimed in the context
    current,               \* the name whose &mut Artifact the caller holds
    panicked,              \* which call panicked, "" while none has
    compared,              \* the names whose baseline the last close loaded
    proc,                  \* concurrent processes: position, file offset, what each read
    cfg_lock,              \* the advisory lock on Egress.toml
    base_file              \* the baseline file the concurrent processes share

cmpVars == <<prefix, json, json_ref, self_art, ref_art, atol, rtol, mismatches, doc, step>>
storeVars == <<config_toml, baseline, artifacts, current, panicked, compared>>
vars == <<prefix, json, json_ref, self_art, ref_art, atol, rtol, mismatches, doc, step,
          config_toml, baseline, artifacts, current, panicked, compared,
          proc, cfg_lock, base_file>>
procVars == <<proc, cfg_lock, base_file>>

(***************************************************************************)
(* Bounds of the model.                                                    *)
(***************************************************************************)
Scale == 2        \* an f64 is counted in units of 1/Scale
MaxLen == 2       \* longest JSON array drawn as an input
I64Max == 6       \* stands for i64::MAX: the largest integer as_i64 returns
F64Exact == 4     \* stands for 2^53: the largest n with every integer up to n an f64

(***************************************************************************)
(* Option<T>                                                               *)
(***************************************************************************)
None == [some |-> FALSE, val |-> 0]
Some(x) == [some |-> TRUE, val |-> x]

Abs(x) == IF x < 0 THEN -x ELSE x

(***************************************************************************)
(* serde_json::Value and Number                                            *)
(***************************************************************************)
Null == [kind |-> "Null", v |-> 0]
Bool(b) == [kind |-> "Bool", v |-> b]
String(s) == [kind |-> "String", v |-> s]
Array(elems) == [kind |-> "Array", v |-> elems]
\* an Object is the sequence of its (key, value) pairs in iteration order
Object(pairs) == [kind |-> "Object", v |-> pairs]
Number(repr, val) == [kind |-> "Number", v |-> [repr |-> repr, val |-> val]]

\* Number::from(i64): PosInt for a non-negative value, NegInt otherwise
NumberFromI64(n) == IF n >= 0 THEN Number("PosInt", n) ELSE Number("NegInt", n)
\* Value::from(f64) of a finite value; x in units of 1/Scale
NumberFromF64(x) == Number("Float", x)

\* Number::from(u64): always PosInt
NumberFromU64(n) == Number("PosInt", n)

\* Number::as_i64: Some for NegInt and for a PosInt up to i64::MAX, None for a
\* larger PosInt and for a float
as_i64(n) ==
    CASE n.repr = "Float" -> None
      [] n.repr = "PosInt" /\ n.val > I64Max -> None
      [] OTHER -> Some(n.val)

\* n as f64 for an integer n: exact up to F64Exact in magnitude; above it the
\* f64s are 2 apart and an odd n is a tie, rounded to the even mantissa
IntAsF64(n) ==
    CASE Abs(n) <= F64Exact -> n
      [] n % 2 = 0 -> n
      [] (n + 1) % 4 = 0 -> n + 1
      [] OTHER -> n - 1

\* Number::as_f64: every representation converts; the result in units of 1/Scale
as_f64(n) == IF n.repr = "Float" THEN Some(n.val) ELSE Some(IntAsF64(n.val) * Scale)

(***************************************************************************)
(* Entry, Artifact, Mismatch                                               *)
(***************************************************************************)
Str(s) == [tag |-> "Str", str |-> s]
Json(value) == [tag |-> "Json", jv |-> value]
Bytes(b) == [tag |-> "Bytes", bytes |-> b]
ArtifactEntry(a) == [tag |-> "Artifact", art |-> a]

\* the keys of the model in byte order, the order a BTreeMap iterates in
KeyOrder == <<"a", "b", "c", "fruits">>
Keys(map) == SelectSeq(KeyOrder, LAMBDA k : k \in DOMAIN map)

EmptyMap == [k \in {} |-> 0]
Artifact_new == [entries |-> EmptyMap]
MapPut(map, k, e) == [x \in DOMAIN map \cup {k} |-> IF x = k THEN e ELSE map[x]]

NotEq(path, produced, reference) ==
    [kind |-> "NotEq", path |-> path, produced |-> produced, reference |-> reference]
NotInReference(path, produced) ==
    [kind |-> "NotInReference", path |-> path, produced |-> produced]
NotProduced(path, reference) ==
    [kind |-> "NotProduced", path |-> path, reference |-> reference]
LengthMismatch(path, len, len_ref, produced, reference) ==
    [kind |-> "LengthMismatch", path |-> path, len |-> len, len_ref |-> len_ref,
     produced |-> produced, reference |-> reference]

(***************************************************************************)
(* compare_float                                                           *)
(***************************************************************************)
compare_float_strict(a, b, at, rt) ==
    CASE ~at.some /\ ~rt.some -> a = b
      [] ~at.some /\ rt.some -> (a - b) * Scale < rt.val * Abs(b)
      [] at.some /\ ~rt.some -> Abs(a - b) < at.val
      [] OTHER -> ((a - b) * Scale < rt.val * Abs(b)) /\ (Abs(a - b) < at.val)

compare_float_symmetric(a, b, at, rt) ==
    CASE ~at.some /\ ~rt.some -> a = b
      [] ~at.some /\ rt.some -> Abs(a - b) * Scale <= rt.val * Abs(b)
      [] at.some /\ ~rt.some -> Abs(a - b) <= at.val
      [] OTHER -> (Abs(a - b) * Scale <= rt.val * Abs(b)) /\ (Abs(a - b) <= at.val)

compare_float(a, b, at, rt) ==
    CASE ~at.some /\ ~rt.some -> a = b
      [] ~at.some /\ rt.some -> (a - b) * Scale <= rt.val * Abs(b)
      [] at.some /\ ~rt.some -> Abs(a - b) <= at.val
      [] OTHER -> ((a - b) * Scale <= rt.val * Abs(b)) /\ (Abs(a - b) <= at.val)

(***************************************************************************)
(* diff_json.  The code pushes onto the caller's vector; the operator      *)
(* returns the mismatches pushed, in order, and callers append them.       *)
(***************************************************************************)
RECURSIVE ConcatAll(_)
ConcatAll(ss) == IF ss = <<>> THEN <<>> ELSE Head(ss) \o ConcatAll(Tail(ss))

\* serde_json::Map::get / contains_key on the pair sequence
ObjHas(pairs, k) == \E i \in 1..Len(pairs) : pairs[i].k = k
ObjGet(pairs, k) == pairs[CHOOSE i \in 1..Len(pairs) : pairs[i].k = k].val

\* lookup in a sequence of [key, val] lines
HasKey(lines, key) == \E i \in 1..Len(lines) : lines[i].key = key
ObjGetKey(lines, key) == lines[CHOOSE i \in 1..Len(lines) : lines[i].key = key].val

\* format!("{}.{}", prefix, k), format!("{}[{}]", prefix, i),
\* format!("{}.len()", prefix), format!("{}::{}", prefix, k)
FmtField(pfx, k) == pfx \o <<".", k>>
FmtIndexOneBased(pfx, i) == pfx \o <<"[", ToString(i + 1), "]">>
FmtIndex(pfx, i) == pfx \o <<"[", ToString(i), "]">>
FmtLenAtPath(pfx) == pfx
FmtLen(pfx) == pfx \o <<".len()">>
FmtKey(pfx, k) == pfx \o <<"::", k>>

diff_number_as_floats(pfx, a, b, at, rt) ==
    IF ~compare_float(as_f64(a).val, as_f64(b).val, at, rt)
    THEN <<NotEq(pfx, Json(NumberFromF64(as_f64(a).val)),
                      Json(NumberFromF64(as_f64(b).val)))>>
    ELSE <<>>

diff_number(pfx, a, b, at, rt) ==
    IF as_i64(a).some /\ as_i64(b).some
    THEN IF as_i64(a).val # as_i64(b).val
         THEN <<NotEq(pfx, Json(NumberFromI64(as_i64(a).val)),
                              Json(NumberFromI64(as_i64(b).val)))>>
         ELSE <<>>
    ELSE IF as_f64(a).some /\ as_f64(b).some
    THEN IF ~compare_float(as_f64(a).val, as_f64(b).val, at, rt)
         THEN <<NotEq(pfx, Json(NumberFromF64(as_f64(a).val)),
                              Json(NumberFromF64(as_f64(b).val)))>>
         ELSE <<>>
    ELSE IF a # b
         THEN <<NotEq(pfx, Json([kind |-> "Number", v |-> a]),
                              Json([kind |-> "Number", v |-> b]))>>
         ELSE <<>>

RECURSIVE diff_json(_, _, _, _, _)
\* the (Array, Array) arm of diff_json
diff_array(pfx, array, array_ref, at, rt) ==
    IF Len(array) # Len(array_ref)
    THEN <<LengthMismatch(FmtLen(pfx), Len(array), Len(array_ref),
                          Json(Array(array)), Json(Array(array_ref)))>>
    ELSE ConcatAll([i \in 1..Len(array) |->
            diff_json(FmtIndex(pfx, i - 1), array[i], array_ref[i], at, rt)])

diff_json(pfx, value, reference, at, rt) ==
    CASE value.kind = "Object" /\ reference.kind = "Object" ->
            LET map == value.v
                reference_map == reference.v
            IN  ConcatAll([i \in 1..Len(map) |->
                    IF ~ObjHas(reference_map, map[i].k)
                    THEN <<NotInReference(FmtField(pfx, map[i].k), Json(map[i].val))>>
                    ELSE diff_json(FmtField(pfx, map[i].k), map[i].val,
                                   ObjGet(reference_map, map[i].k), at, rt)])
                \o ConcatAll([i \in 1..Len(reference_map) |->
                    IF ~ObjHas(map, reference_map[i].k)
                    THEN <<NotProduced(FmtField(pfx, reference_map[i].k),
                                       Json(reference_map[i].val))>>
                    ELSE <<>>])
      [] value.kind = "Array" /\ reference.kind = "Array" ->
            diff_array(pfx, value.v, reference.v, at, rt)
      [] value.kind = "Number" /\ reference.kind = "Number" ->
            diff_number(pfx, value.v, reference.v, at, rt)
      [] OTHER ->
            IF value # reference
            THEN <<NotEq(pfx, Json(value), Json(reference))>>
            ELSE <<>>

(***************************************************************************)
(* Artifact::compare_against_reference and report_mismatches               *)
(***************************************************************************)
missing_in_produced_none(pfx, self, reference) == <<>>

\* the second loop of compare_against_reference: reference keys self lacks
missing_in_produced(pfx, self, reference) ==
    ConcatAll([i \in 1..Len(Keys(reference.entries)) |->
        LET k_ref == Keys(reference.entries)[i]
        IN  IF k_ref \notin DOMAIN self.entries
            THEN <<NotProduced(FmtKey(pfx, k_ref), reference.entries[k_ref])>>
            ELSE <<>>])

RECURSIVE compare_against_reference(_, _, _, _, _)
compare_against_reference(pfx, self, reference, at, rt) ==
    ConcatAll([i \in 1..Len(Keys(self.entries)) |->
        LET k == Keys(self.entries)[i]
            v == self.entries[k]
        IN  IF k \notin DOMAIN reference.entries
            THEN <<NotInReference(FmtKey(pfx, k), v)>>
            ELSE LET v_ref == reference.entries[k]
                 IN  CASE v.tag = "Artifact" /\ v_ref.tag = "Artifact" ->
                            compare_against_reference(FmtKey(pfx, k), v.art, v_ref.art, at, rt)
                       [] v.tag = "Json" /\ v_ref.tag = "Json" ->
                            diff_json(FmtKey(pfx, k), v.jv, v_ref.jv, at, rt)
                       [] OTHER ->
                            IF v # v_ref
                            THEN <<NotEq(FmtKey(pfx, k), v, v_ref)>>
                            ELSE <<>>])
    \o missing_in_produced(pfx, self, reference)

report_mismatches(pfx, self, reference, at, rt) ==
    compare_against_reference(pfx, self, reference, at, rt)

(***************************************************************************)
(* The persisted form.  serde's derived Serialize writes an Artifact as    *)
(* the JSON object of its entries in key order and an Entry as the         *)
(* one-field object { <variant name>: <payload> }; serde_json then prints  *)
(* the document.  A printed number keeps a fraction exactly when it is a   *)
(* float, and the parser picks the representation back from the text.      *)
(***************************************************************************)
\* the text of a number: its value and whether a fraction / exponent is printed
write_number(n) == [frac |-> n.repr = "Float", val |-> n.val]
parse_number(t) ==
    IF t.frac THEN [repr |-> "Float", val |-> t.val]
    ELSE IF t.val < 0 THEN [repr |-> "NegInt", val |-> t.val]
    ELSE [repr |-> "PosInt", val |-> t.val]

RECURSIVE write_value(_)
write_value(value) ==
    CASE value.kind = "Number" -> [kind |-> "Number", v |-> write_number(value.v)]
      [] value.kind = "Array" ->
            Array([i \in 1..Len(value.v) |-> write_value(value.v[i])])
      [] value.kind = "Object" ->
            Object([i \in 1..Len(value.v) |->
                [k |-> value.v[i].k, val |-> write_value(value.v[i].val)]])
      [] OTHER -> value

RECURSIVE parse_value(_)
parse_value(text) ==
    CASE text.kind = "Number" -> [kind |-> "Number", v |-> parse_number(text.v)]
      [] text.kind = "Array" ->
            Array([i \in 1..Len(text.v) |-> parse_value(text.v[i])])
      [] text.kind = "Object" ->
            Object([i \in 1..Len(text.v) |->
                [k |-> text.v[i].k, val |-> parse_value(text.v[i].val)]])
      [] OTHER -> text

RECURSIVE serialize_artifact(_)
serialize_entry(e) ==
    Object(<<[k |-> e.tag,
              val |-> CASE e.tag = "Str" -> String(e.str)
                        [] e.tag = "Json" -> e.jv
                        [] e.tag = "Bytes" ->
                              Array([i \in 1..Len(e.bytes) |-> NumberFromI64(e.bytes[i])])
                        [] OTHER -> serialize_artifact(e.art)]>>)

serialize_artifact(a) ==
    Object([i \in 1..Len(Keys(a.entries)) |->
        [k |-> Keys(a.entries)[i], val |-> serialize_entry(a.entries[Keys(a.entries)[i]])]])

RECURSIVE deserialize_artifact(_)
deserialize_entry(value) ==
    LET variant == value.v[1].k
        payload == value.v[1].val
    IN  CASE variant = "Str" -> Str(payload.v)
          [] variant = "Json" -> Json(payload)
          [] variant = "Bytes" -> Bytes([i \in 1..Len(payload.v) |-> payload.v[i].v.val])
          [] OTHER -> ArtifactEntry(deserialize_artifact(payload))

deserialize_artifact(value) ==
    [entries |-> [k \in {value.v[i].k : i \in 1..Len(value.v)} |->
                    deserialize_entry(ObjGet(value.v, k))]]

\* serde_json::to_writer_pretty(&mut file, artifact): the document written
to_writer_pretty(a) == write_value(serialize_artifact(a))
\* serde_json::from_reader(&mut file): the Artifact a complete document holds
from_reader(text) == deserialize_artifact(parse_value(text))

(***************************************************************************)
(* Inputs of the comparison specifications.                                *)
(***************************************************************************)
\* Option<f64> tolerances: unset, negative, zero, positive (units of 1/Scale)
TolPool == {None, Some(-1), Some(0), Some(1)}

NumberPool ==
    {NumberFromI64(-1), NumberFromI64(1), NumberFromI64(2),
     NumberFromF64(-Scale), NumberFromF64(0), NumberFromF64(Scale),
     NumberFromF64(Scale + 1), NumberFromF64(2 * Scale)}

ElemPool == {String("apples"), String("pears"), NumberFromF64(Scale)}

ArrayPool == UNION {{Array(s) : s \in [1..n -> ElemPool]} : n \in 0..MaxLen}

NestedPool ==
    {Array(<<Array(<<String("apples")>>), NumberFromI64(1)>>),
     Array(<<Array(<<String("pears")>>), NumberFromF64(Scale)>>),
     Array(<<Array(<<String("apples"), String("pears")>>)>>),
     Object(<<[k |-> "x", val |-> NumberFromF64(Scale)]>>),
     Object(<<[k |-> "x", val |-> NumberFromF64(Scale + 1)],
              [k |-> "y", val |-> Array(<<Null>>)]>>)}

JsonPool == {Null, Bool(TRUE), String("apples")} \cup NumberPool \cup ArrayPool \cup NestedPool

PrefixPool == {<<"test">>, <<"test", "::", "fruits">>}

\* the variables a specification does not use
NoStore ==
    /\ config_toml = [exists |-> FALSE]
    /\ baseline = <<>>
    /\ artifacts = <<>>
    /\ current = ""
    /\ panicked = ""
    /\ compared = {}
NoProcs ==
    /\ proc = <<>>
    /\ cfg_lock = [ex |-> 0, sh |-> {}]
    /\ base_file = [exists |-> FALSE]
NoJson == json = Null /\ json_ref = Null /\ prefix = <<>>
NoArtifact == self_art = Artifact_new /\ ref_art = Artifact_new /\ doc = Null

(***************************************************************************)
(* SpecDiff: diff_json applied to every pair of Values of JsonPool.        *)
(***************************************************************************)
InitDiff ==
    /\ prefix \in PrefixPool
    /\ json \in JsonPool
    /\ json_ref \in JsonPool
    /\ atol \in TolPool
    /\ rtol \in TolPool
    /\ mismatches = <<>>
    /\ step = "init"
    /\ NoArtifact
    /\ NoStore
    /\ NoProcs

DiffJson ==
    /\ step = "init"
    /\ mismatches' = diff_json(prefix, json, json_ref, atol, rtol)
    /\ step' = "diffed"
    /\ UNCHANGED <<prefix, json, json_ref, self_art, ref_art, atol, rtol, doc>>
    /\ UNCHANGED storeVars
    /\ UNCHANGED procVars

NextDiff == DiffJson

SpecDiff == InitDiff /\ [][NextDiff]_vars

BothArrays == json.kind = "Array" /\ json_ref.kind = "Array"
UnequalLength == BothArrays /\ Len(json.v) # Len(json_ref.v)

\* C7 as stated: two JSON arrays of unequal length compared at path p yield
\* exactly one LengthMismatch, located at path p itself, with both lengths and
\* both whole arrays, and nothing at an element path p[i].
C7_LengthMismatchAtPath ==
    (step = "diffed" /\ UnequalLength) =>
        mismatches = <<LengthMismatch(prefix, Len(json.v), Len(json_ref.v),
                                      Json(json), Json(json_ref))>>

\* C7 amended: two JSON arrays of unequal length compared at path p yield
\* exactly one mismatch, a LengthMismatch whose path is p followed by ".len()",
\* with both lengths and both whole arrays; so nothing is emitted at an
\* element path p[i].
C7_LengthMismatchAtLenPath ==
    (step = "diffed" /\ UnequalLength) =>
        mismatches = <<[kind |-> "LengthMismatch", path |-> prefix \o <<".len()">>,
                        len |-> Len(json.v), len_ref |-> Len(json_ref.v),
                        produced |-> Json(json), reference |-> Json(json_ref)]>>

\* arrays of unequal length whose first elements differ have been compared
C7_Witness ==
    /\ step = "diffed"
    /\ UnequalLength
    /\ Len(json.v) >= 1 /\ Len(json_ref.v) >= 1
    /\ json.v[1] # json_ref.v[1]
    /\ Len(mismatches) = 1

BothNumbers == json.kind = "Number" /\ json_ref.kind = "Number"
BothIntegers == BothNumbers /\ as_i64(json.v).some /\ as_i64(json_ref.v).some

\* C10: with rtol set, two numbers a (produced) and b (reference) that are not
\* both integers are accepted only if |a - b| <= rtol * |b|; stated on the case
\* the claim singles out: a produced value below the reference by more than
\* rtol * |b| (rtol >= 0) is reported as NotEq.
C10_RtolIsSymmetric ==
    (/\ step = "diffed" /\ BothNumbers /\ ~BothIntegers
     /\ rtol.some /\ rtol.val >= 0
     /\ (as_f64(json_ref.v).val - as_f64(json.v).val) * Scale
            > rtol.val * Abs(as_f64(json_ref.v).val))
        => (Len(mismatches) = 1 /\ mismatches[1].kind = "NotEq")

(***************************************************************************)
(* SpecNum: diff_json applied to every pair of JSON numbers: integers      *)
(* within and beyond the i64 range and within and beyond the exact range   *)
(* of an f64, and floats, under tolerances up to two whole units.          *)
(***************************************************************************)
IntegerInputs ==
    {NumberFromI64(-1), NumberFromI64(1), NumberFromI64(2),
     NumberFromI64(I64Max - 1), NumberFromI64(I64Max),
     NumberFromU64(I64Max + 1), NumberFromU64(I64Max + 2)}

FloatInputs ==
    {NumberFromF64(-Scale), NumberFromF64(0), NumberFromF64(1),
     NumberFromF64(Scale), NumberFromF64(Scale + 1), NumberFromF64(2 * Scale),
     NumberFromF64(I64Max * Scale)}

NumTolPool == {None, Some(-1), Some(0), Some(1), Some(2 * Scale)}

InitNum ==
    /\ prefix = <<"basic_arithmetic", "::", "a">>
    /\ json \in IntegerInputs \cup FloatInputs
    /\ json_ref \in IntegerInputs \cup FloatInputs
    /\ atol \in NumTolPool
    /\ rtol \in NumTolPool
    /\ mismatches = <<>>
    /\ step = "init"
    /\ NoArtifact
    /\ NoStore
    /\ NoProcs

NextNum == DiffJson

SpecNum == InitNum /\ [][NextNum]_vars

\* the two numbers as the f64s the float comparison receives
ProducedF64 == as_f64(json.v).val
ReferenceF64 == as_f64(json_ref.v).val

\* the pass rule of the numeric tolerance, on values in units of 1/Scale
WithinRtol == (ProducedF64 - ReferenceF64) * Scale <= rtol.val * Abs(ReferenceF64)
WithinAtol == Abs(ProducedF64 - ReferenceF64) <= atol.val
Passes ==
    /\ (~atol.some /\ ~rtol.some) => ProducedF64 = ReferenceF64
    /\ rtol.some => WithinRtol
    /\ atol.some => WithinAtol

C12_IntegersExact ==
    (step = "diffed" /\ BothNumbers) =>
        IF BothIntegers
        THEN mismatches =
                IF json.v.val = json_ref.v.val THEN <<>>
                ELSE <<[kind |-> "NotEq", path |-> prefix,
                        produced |-> Json(json), reference |-> Json(json_ref)]>>
        ELSE (mismatches = <<>>) <=> Passes

\* the integers 1 and 2, within atol and within rtol of each other, have been
\* reported as not equal
C12_Witness ==
    /\ step = "diffed"
    /\ json = NumberFromI64(1) /\ json_ref = NumberFromI64(2)
    /\ atol = Some(2 * Scale) /\ rtol = Some(0)
    /\ Passes
    /\ Len(mismatches) = 1 /\ mismatches[1].kind = "NotEq"

(***************************************************************************)
(* SpecRoundTrip: an Artifact is written as a baseline, read back, and     *)
(* compared against the copy.  SpecCmp: two Artifacts are compared.        *)
(***************************************************************************)
Art(map) == [entries |-> map]

EntryPool ==
    {Str("x"),
     Bytes(<<0, 255>>),
     Json(NumberFromF64(Scale + 1)),
     Json(NumberFromI64(-1)),
     Json(Array(<<String("apples"), NumberFromF64(-Scale)>>)),
     Json(Object(<<[k |-> "x", val |-> NumberFromF64(Scale + 1)],
                   [k |-> "y", val |-> Array(<<Null, NumberFromI64(2)>>)]>>)),
     ArtifactEntry(Art([k \in {"a"} |-> Json(NumberFromF64(Scale))])),
     ArtifactEntry(Art([k \in {"b", "c"} |->
        IF k = "b" THEN ArtifactEntry(Art([j \in {"a"} |-> Bytes(<<7>>)]))
        ELSE Json(Array(<<NumberFromF64(1)>>))]))}

SmallEntryPool ==
    {Str("x"),
     Json(Array(<<String("apples"), NumberFromF64(Scale)>>)),
     ArtifactEntry(Art([k \in {"a"} |-> Json(NumberFromI64(1))]))}

TopKeys == {"a", "b", "c"}
ArtifactsOver(pool) == UNION {{Art(m) : m \in [ks -> pool]} : ks \in SUBSET TopKeys}

InitRoundTrip ==
    /\ self_art \in ArtifactsOver(EntryPool)
    /\ ref_art = Artifact_new
    /\ doc = Null
    /\ atol \in TolPool
    /\ rtol \in TolPool
    /\ mismatches = <<>>
    /\ step = "init"
    /\ NoJson
    /\ NoStore
    /\ NoProcs

InitCmp ==
    /\ self_art \in ArtifactsOver(SmallEntryPool)
    /\ ref_art \in ArtifactsOver(SmallEntryPool)
    /\ doc = Null
    /\ atol \in TolPool
    /\ rtol \in TolPool
    /\ mismatches = <<>>
    /\ step = "init"
    /\ NoJson
    /\ NoStore
    /\ NoProcs

\* serde_json::to_writer_pretty(&mut file, artifact)
Save ==
    /\ step = "init"
    /\ doc' = to_writer_pretty(self_art)
    /\ step' = "saved"
    /\ UNCHANGED <<prefix, json, json_ref, self_art, ref_art, atol, rtol, mismatches>>
    /\ UNCHANGED storeVars
    /\ UNCHANGED procVars

\* let reference = serde_json::from_reader(&mut file)?
Load ==
    /\ step = "saved"
    /\ ref_art' = from_reader(doc)
    /\ step' = "loaded"
    /\ UNCHANGED <<prefix, json, json_ref, self_art, atol, rtol, mismatches, doc>>
    /\ UNCHANGED storeVars
    /\ UNCHANGED procVars

\* artifact.report_mismatches(name, &reference, atol, rtol)
Compare ==
    /\ step \in {"init", "loaded"}
    /\ mismatches' = report_mismatches(<<"test">>, self_art, ref_art, atol, rtol)
    /\ step' = IF step = "init" THEN "compared" ELSE "compared_copy"
    /\ UNCHANGED <<prefix, json, json_ref, self_art, ref_art, atol, rtol, doc>>
    /\ UNCHANGED storeVars
    /\ UNCHANGED procVars

NextRoundTrip == Save \/ Load \/ Compare
NextCmp == Compare

SpecRoundTrip == InitRoundTrip /\ [][NextRoundTrip]_vars
SpecCmp == InitCmp /\ [][NextCmp]_vars

NonNegative(tol) == ~tol.some \/ tol.val >= 0

\* C6: an Artifact compared against the deserialized copy of its own
\* serialized form yields no Mismatch, whenever atol and rtol are each unset
\* or non-negative.
C6_SelfComparisonEmpty ==
    (step = "compared_copy" /\ NonNegative(atol) /\ NonNegative(rtol)) =>
        mismatches = <<>>

\* an Artifact holding a nested Artifact and a JSON float has been compared
\* against its copy under zero tolerances
C6_Witness ==
    /\ step = "compared_copy"
    /\ atol = Some(0) /\ rtol = Some(0)
    /\ "a" \in DOMAIN self_art.entries /\ self_art.entries["a"].tag = "Artifact"
    /\ "b" \in DOMAIN self_art.entries
    /\ self_art.entries["b"] = Json(NumberFromF64(Scale + 1))
    /\ ref_art = self_art
    /\ mismatches = <<>>

\* C9: Artifacts A (produced) and B (reference) with no common top-level key
\* yield exactly |A| + |B| mismatches: a NotInReference per key of A in key
\* order, then a NotProduced per key of B in key order, each carrying the
\* entry, and nothing else.
C9_DisjointKeys ==
    (step = "compared" /\ DOMAIN self_art.entries \cap DOMAIN ref_art.entries = {}) =>
        LET ka == SelectSeq(<<"a", "b", "c">>, LAMBDA k : k \in DOMAIN self_art.entries)
            kb == SelectSeq(<<"a", "b", "c">>, LAMBDA k : k \in DOMAIN ref_art.entries)
        IN  /\ Len(mismatches) = Cardinality(DOMAIN self_art.entries)
                                    + Cardinality(DOMAIN ref_art.entries)
            /\ mismatches =
                [i \in 1..Len(ka) |->
                    [kind |-> "NotInReference", path |-> <<"test", "::", ka[i]>>,
                     produced |-> self_art.entries[ka[i]]]]
                \o [i \in 1..Len(kb) |->
                    [kind |-> "NotProduced", path |-> <<"test", "::", kb[i]>>,
                     reference |-> ref_art.entries[kb[i]]]]

\* a two-key produced Artifact and a one-key reference with no key in common
\* have been compared
C9_Witness ==
    /\ step = "compared"
    /\ DOMAIN self_art.entries = {"a", "c"}
    /\ DOMAIN ref_art.entries = {"b"}
    /\ Len(mismatches) = 3

(***************************************************************************)
(* The snapshot store, one test thread at a time: every call of the API    *)
(* is one step.                                                            *)
(***************************************************************************)
\* EgressConfig::new()
EgressConfig_new ==
    [artifact_dir |-> "egress/artifacts/", atol |-> Some(0), rtol |-> Some(0)]

\* toml::ser::to_string_pretty / toml::de::from_str: one "key = value" line per
\* field that is Some, a missing key reading back as None
toml_to_string(config) ==
    <<[key |-> "artifact_dir", val |-> config.artifact_dir]>>
    \o (IF config.atol.some THEN <<[key |-> "atol", val |-> config.atol.val]>> ELSE <<>>)
    \o (IF config.rtol.some THEN <<[key |-> "rtol", val |-> config.rtol.val]>> ELSE <<>>)
toml_from_str(text) ==
    [artifact_dir |-> ObjGetKey(text, "artifact_dir"),
     atol |-> IF HasKey(text, "atol") THEN Some(ObjGetKey(text, "atol")) ELSE None,
     rtol |-> IF HasKey(text, "rtol") THEN Some(ObjGetKey(text, "rtol")) ELSE None]

NoFile == [exists |-> FALSE]
File(text) == [exists |-> TRUE, text |-> text]

ArtifactNames == {"test", "basic_arithmetic"}

\* Artifact::insert: BTreeMap::insert stores the entry and returns the old one;
\* the call panics when there was one
insert(a, name, entry) ==
    [artifact |-> [entries |-> MapPut(a.entries, name, entry)],
     panics |-> name \in DOMAIN a.entries]

close_one_skip_write(name, artifact, file, at, rt) ==
    IF file.exists
    THEN [file |-> file,
          found |-> report_mismatches(<<name>>, artifact, from_reader(file.text), at, rt)]
    ELSE [file |-> file, found |-> <<>>]

close_one_update(name, artifact, file, at, rt) ==
    IF file.exists
    THEN [file |-> File(to_writer_pretty(artifact)),
          found |-> report_mismatches(<<name>>, artifact, from_reader(file.text), at, rt)]
    ELSE [file |-> File(to_writer_pretty(artifact)), found |-> <<>>]

\* the body of the loop of Egress::close for one (path, artifact): the file it
\* leaves and the mismatches it adds
close_one(name, artifact, file, at, rt) ==
    IF file.exists
    THEN [file |-> file,
          found |-> report_mismatches(<<name>>, artifact, from_reader(file.text), at, rt)]
    ELSE [file |-> File(to_writer_pretty(artifact)), found |-> <<>>]

\* the orders a HashMap of these keys may be iterated in
Orders(S) == {o \in [1..Cardinality(S) -> S] : \A i, j \in DOMAIN o : o[i] = o[j] => i = j}

InitStore ==
    /\ config_toml = NoFile
    /\ baseline = [n \in ArtifactNames |-> NoFile]
    /\ artifacts = EmptyMap
    /\ current = ""
    /\ panicked = ""
    /\ compared = {}
    /\ atol = None
    /\ rtol = None
    /\ mismatches = <<>>
    /\ step = "none"
    /\ NoJson
    /\ NoArtifact
    /\ NoProcs

\* Egress::open: writes the default Egress.toml when there is none, reads it
Open ==
    /\ step \in {"none", "closed", "panicked"}
    /\ config_toml' = IF config_toml.exists THEN config_toml
                      ELSE File(toml_to_string(EgressConfig_new))
    /\ atol' = toml_from_str(config_toml'.text).atol
    /\ rtol' = toml_from_str(config_toml'.text).rtol
    /\ artifacts' = EmptyMap
    /\ current' = ""
    /\ panicked' = ""
    /\ compared' = {}
    /\ mismatches' = <<>>
    /\ step' = "open"
    /\ UNCHANGED <<prefix, json, json_ref, self_art, ref_art, doc, baseline>>
    /\ UNCHANGED procVars

\* egress.atol = ..., egress.rtol = ...: the fields are public
SetAtol(tol) ==
    /\ step = "open"
    /\ atol' = tol
    /\ UNCHANGED <<prefix, json, json_ref, self_art, ref_art, rtol, mismatches, doc, step>>
    /\ UNCHANGED storeVars
    /\ UNCHANGED procVars

SetRtol(tol) ==
    /\ step = "open"
    /\ rtol' = tol
    /\ UNCHANGED <<prefix, json, json_ref, self_art, ref_art, atol, mismatches, doc, step>>
    /\ UNCHANGED storeVars
    /\ UNCHANGED procVars

\* Egress::artifact(name): panics when the name is claimed already
ClaimArtifact(name) ==
    /\ step = "open"
    /\ IF name \in DOMAIN artifacts
       THEN /\ step' = "panicked"
            /\ panicked' = "artifact"
            /\ UNCHANGED <<artifacts, current>>
       ELSE /\ artifacts' = MapPut(artifacts, name, Artifact_new)
            /\ current' = name
            /\ UNCHANGED <<step, panicked>>
    /\ UNCHANGED <<prefix, json, json_ref, self_art, ref_art, atol, rtol, mismatches, doc,
                   config_toml, baseline, compared>>
    /\ UNCHANGED procVars

\* artifact.insert(key, entry) on the artifact the caller holds
Insert(key, entry) ==
    /\ step = "open"
    /\ current # ""
    /\ LET r == insert(artifacts[current], key, entry)
       IN  /\ artifacts' = [artifacts EXCEPT ![current] = r.artifact]
           /\ step' = IF r.panics THEN "panicked" ELSE step
           /\ panicked' = IF r.panics THEN "insert" ELSE panicked
    /\ UNCHANGED <<prefix, json, json_ref, self_art, ref_art, atol, rtol, mismatches, doc,
                   config_toml, baseline, current, compared>>
    /\ UNCHANGED procVars

\* Egress::close
Close ==
    /\ step = "open"
    /\ \E order \in Orders(DOMAIN artifacts) :
        mismatches' = ConcatAll([i \in 1..Len(order) |->
            close_one(order[i], artifacts[order[i]], baseline[order[i]], atol, rtol).found])
    /\ baseline' = [n \in ArtifactNames |->
            IF n \in DOMAIN artifacts
            THEN close_one(n, artifacts[n], baseline[n], atol, rtol).file
            ELSE baseline[n]]
    /\ compared' = {n \in DOMAIN artifacts : baseline[n].exists}
    \* close(self) consumes the context
    /\ artifacts' = EmptyMap
    /\ current' = ""
    /\ atol' = None
    /\ rtol' = None
    /\ step' = "closed"
    /\ UNCHANGED <<prefix, json, json_ref, self_art, ref_art, doc, config_toml, panicked>>
    /\ UNCHANGED procVars

\* fs::remove_file on a baseline, the one way to re-baseline
RemoveFile(name) ==
    /\ baseline[name].exists
    /\ baseline' = [baseline EXCEPT ![name] = NoFile]
    /\ UNCHANGED <<prefix, json, json_ref, self_art, ref_art, atol, rtol, mismatches, doc,
                   step, config_toml, artifacts, current, panicked, compared>>
    /\ UNCHANGED procVars

StoreKeys == {"a", "b"}
StoreEntries == {Str("x"), Json(NumberFromF64(Scale + 1))}
\* what a test assigns to the public tolerance fields
StoreAtols == {None}
StoreRtols == {Some(-1)}

Next ==
    \/ Open
    \/ \E tol \in StoreAtols : SetAtol(tol)
    \/ \E tol \in StoreRtols : SetRtol(tol)
    \/ \E name \in ArtifactNames : ClaimArtifact(name)
    \/ \E key \in StoreKeys, entry \in StoreEntries : Insert(key, entry)
    \/ Close
    \/ \E name \in ArtifactNames : RemoveFile(name)

Spec == InitStore /\ [][Next]_vars

Closing == step = "open" /\ step' = "closed"
\* the Report holds no Mismatch of artifact n (every path starts with the name)
NoMismatchFor(report, n) == \A i \in 1..Len(report) : report[i].path[1] # n

\* C3 as stated: for a name with no baseline file, close writes the baseline
\* holding the produced artifact and reports nothing for it; and a close whose
\* produced artifact is identical to the one the baseline holds reports
\* nothing for it either.
C3_FirstAndSecondRunPass ==
    [][Closing => \A n \in DOMAIN artifacts :
        /\ ~baseline[n].exists =>
            /\ baseline'[n].exists
            /\ from_reader(baseline'[n].text) = artifacts[n]
            /\ NoMismatchFor(mismatches', n)
        /\ (baseline[n].exists /\ from_reader(baseline[n].text) = artifacts[n]) =>
            NoMismatchFor(mismatches', n)]_vars

\* C3 amended: the same, the second run passing when atol and rtol are each
\* unset or non-negative as the context is closed.
C3_SecondRunPassesNonNegative ==
    [][Closing => \A n \in DOMAIN artifacts :
        /\ ~baseline[n].exists =>
            /\ baseline'[n].exists
            /\ from_reader(baseline'[n].text) = artifacts[n]
            /\ NoMismatchFor(mismatches', n)
        /\ (/\ baseline[n].exists /\ from_reader(baseline[n].text) = artifacts[n]
            /\ NonNegative(atol) /\ NonNegative(rtol)) =>
            NoMismatchFor(mismatches', n)]_vars

\* a close has loaded the baseline of "test", which an earlier close wrote with
\* a JSON float in it, and reported nothing
C3_Witness ==
    /\ step = "closed"
    /\ compared = {"test"}
    /\ baseline["test"].exists
    /\ from_reader(baseline["test"].text) =
            Art([k \in {"a", "b"} |-> IF k = "a" THEN Json(NumberFromF64(Scale + 1))
                                                 ELSE Str("x")])
    /\ mismatches = <<>>

\* C4: close never changes a baseline file that exists, whether the comparison
\* finds mismatches or not; the content of a file stays what was first written
\* for as long as the file exists.
C4_BaselineNeverOverwritten ==
    [][\A n \in ArtifactNames :
        /\ (Closing /\ baseline[n].exists) => baseline'[n] = baseline[n]
        /\ (baseline[n].exists /\ baseline'[n].exists) => baseline'[n] = baseline[n]]_vars

\* a close has compared "test" against its baseline and found mismatches
C4_Witness ==
    /\ step = "closed"
    /\ "test" \in compared
    /\ baseline["test"].exists
    /\ mismatches # <<>>

\* C5: an insert under a key already present fails and leaves every entry of
\* the artifact, the one under that key included, as it was.
C5_FailedInsertKeepsEntries ==
    [][(step = "open" /\ panicked' = "insert") => artifacts' = artifacts]_vars

(***************************************************************************)
(* SpecArr: the store run on artifacts holding one JSON array under the    *)
(* key "fruits" (tests/mismatches.rs).                                     *)
(***************************************************************************)
FruitArrays ==
    {<<String("apples"), String("bananas"), String("oranges")>>,
     <<String("apples"), String("pears"), String("oranges")>>,
     <<String("pears"), String("bananas"), String("apples")>>,
     <<NumberFromI64(1), String("bananas"), NumberFromF64(Scale + 1)>>,
     <<NumberFromF64(Scale), String("bananas"), NumberFromF64(Scale + 1)>>,
     <<NumberFromI64(2), String("pears"), NumberFromF64(Scale + 1)>>,
     <<Array(<<String("apples")>>), String("bananas"), Null>>,
     <<Array(<<String("pears")>>), String("bananas"), Bool(TRUE)>>,
     <<Object(<<[k |-> "x", val |-> NumberFromI64(1)]>>), String("bananas"), Null>>,
     <<Object(<<[k |-> "x", val |-> NumberFromI64(2)]>>), String("bananas"), Null>>,
     <<String("apples"), String("bananas")>>,
     <<String("apples"), String("pears")>>}

NextArr ==
    \/ Open
    \/ \E tol \in StoreAtols : SetAtol(tol)
    \/ \E tol \in StoreRtols : SetRtol(tol)
    \/ ClaimArtifact("test")
    \/ \E array \in FruitArrays : Insert("fruits", Json(Array(array)))
    \/ Close
    \/ RemoveFile("test")

SpecArr == InitStore /\ [][NextArr]_vars

\* "test" is closed against a baseline and both hold a JSON array of the same
\* length under "fruits"
SameLengthFruits ==
    /\ Closing
    /\ "test" \in DOMAIN artifacts /\ baseline["test"].exists
    /\ "fruits" \in DOMAIN artifacts["test"].entries
    /\ "fruits" \in DOMAIN from_reader(baseline["test"].text).entries
    /\ LET e == artifacts["test"].entries["fruits"]
           e_ref == from_reader(baseline["test"].text).entries["fruits"]
       IN  /\ e.tag = "Json" /\ e_ref.tag = "Json"
           /\ e.jv.kind = "Array" /\ e_ref.jv.kind = "Array"
           /\ Len(e.jv.v) = Len(e_ref.jv.v)
ProducedFruits == artifacts["test"].entries["fruits"].jv.v
BaselineFruits == from_reader(baseline["test"].text).entries["fruits"].jv.v
\* the indices (from 0) at which the two arrays differ, increasing
DifferingIndices ==
    SelectSeq([i \in 1..Len(ProducedFruits) |-> i - 1],
              LAMBDA i : ProducedFruits[i + 1] # BaselineFruits[i + 1])
\* the Report is one NotEq per differing index, at test::fruits[i], in order
OneNotEqPerIndex(report) ==
    /\ Len(report) = Len(DifferingIndices)
    /\ \A j \in 1..Len(report) :
        /\ report[j].kind = "NotEq"
        /\ report[j].path = <<"test", "::", "fruits", "[", ToString(DifferingIndices[j]), "]">>
\* a pair of elements diff_json settles by equality: not two arrays, not two
\* objects, not two numbers of which one is a float
PlainPair(x, y) ==
    /\ ~(x.kind = "Array" /\ y.kind = "Array")
    /\ ~(x.kind = "Object" /\ y.kind = "Object")
    /\ ~(x.kind = "Number" /\ y.kind = "Number"
            /\ ~(as_i64(x.v).some /\ as_i64(y.v).some))

NProcs == 2            \* processes sharing the config directory
BaselineChunks == 2    \* writes serde_json makes of one baseline document
Procs == 1..NProcs

\* proc[p].pc: where p is; proc[p].pos: the offset of p's baseline handle;
\* proc[p].cfg_read and proc[p].base_read: what p read from each file
InitConc ==
    /\ proc = [p \in Procs |-> [pc |-> "start", pos |-> 0,
                                cfg_read |-> "none", base_read |-> "none"]]
    /\ cfg_lock = [ex |-> 0, sh |-> {}]
    /\ base_file = NoFile
    /\ config_toml = NoFile
    /\ baseline = <<>>
    /\ artifacts = <<>>
    /\ current = ""
    /\ panicked = ""
    /\ compared = {}
    /\ atol = None
    /\ rtol = None
    /\ mismatches = <<>>
    /\ step = "none"
    /\ NoJson
    /\ NoArtifact

Goto(p, label) == proc' = [proc EXCEPT ![p].pc = label]
ConcFrame ==
    UNCHANGED <<prefix, json, json_ref, self_art, ref_art, atol, rtol, mismatches, doc,
                step, baseline, artifacts, current, panicked, compared>>

\* if !path.exists()
OpenExists(p) ==
    /\ proc[p].pc = "start"
    /\ Goto(p, IF config_toml.exists THEN "open_file" ELSE "create_new")
    /\ UNCHANGED <<config_toml, cfg_lock, base_file>>
    /\ ConcFrame

\* OpenOptions::new().write(true).create_new(true).open(&path)?
OpenCreateNew(p) ==
    /\ proc[p].pc = "create_new"
    /\ IF config_toml.exists
       THEN Goto(p, "failed") /\ UNCHANGED config_toml
       ELSE Goto(p, "lock_exclusive") /\ config_toml' = File(<<>>)
    /\ UNCHANGED <<cfg_lock, base_file>>
    /\ ConcFrame

\* config_file.lock_exclusive()?: waits while any other handle holds a lock
OpenLockExclusive(p) ==
    /\ proc[p].pc = "lock_exclusive"
    /\ cfg_lock.ex = 0 /\ cfg_lock.sh = {}
    /\ cfg_lock' = [cfg_lock EXCEPT !.ex = p]
    /\ Goto(p, "write_all")
    /\ UNCHANGED <<config_toml, base_file>>
    /\ ConcFrame

\* config_file.write_all(config_string.as_bytes())?
OpenWriteAll(p) ==
    /\ proc[p].pc = "write_all"
    /\ config_toml' = File(toml_to_string(EgressConfig_new))
    /\ Goto(p, "unlock")
    /\ UNCHANGED <<cfg_lock, base_file>>
    /\ ConcFrame

\* config_file.unlock()?
OpenUnlock(p) ==
    /\ proc[p].pc = "unlock"
    /\ cfg_lock' = [cfg_lock EXCEPT !.ex = 0]
    /\ Goto(p, "open_file")
    /\ UNCHANGED <<config_toml, base_file>>
    /\ ConcFrame

\* let mut file = File::open(path)?
OpenFile(p) ==
    /\ proc[p].pc = "open_file"
    /\ Goto(p, IF config_toml.exists THEN "lock_shared" ELSE "failed")
    /\ UNCHANGED <<config_toml, cfg_lock, base_file>>
    /\ ConcFrame

\* file.lock_shared()?: waits while another handle holds the exclusive lock
OpenLockShared(p) ==
    /\ proc[p].pc = "lock_shared"
    /\ cfg_lock.ex = 0
    /\ cfg_lock' = [cfg_lock EXCEPT !.sh = @ \cup {p}]
    /\ Goto(p, "read")
    /\ UNCHANGED <<config_toml, base_file>>
    /\ ConcFrame

\* file.read_to_string(&mut s)?; toml::de::from_str(&s)?  The handle is dropped,
\* and its lock released, as open returns; a text without artifact_dir is an Err.
OpenRead(p) ==
    /\ proc[p].pc = "read"
    /\ proc' = [proc EXCEPT
            ![p].cfg_read = IF config_toml.text = <<>> THEN "empty" ELSE "complete",
            ![p].pc = IF HasKey(config_toml.text, "artifact_dir") THEN "opened" ELSE "failed"]
    /\ cfg_lock' = [cfg_lock EXCEPT !.sh = @ \ {p}]
    /\ UNCHANGED <<config_toml, base_file>>
    /\ ConcFrame

\* close: if path_to_file.exists()
CloseExists(p) ==
    /\ proc[p].pc = "opened"
    /\ Goto(p, IF base_file.exists THEN "load" ELSE "create")
    /\ UNCHANGED <<config_toml, cfg_lock, base_file>>
    /\ ConcFrame

\* the document is whole when every chunk of it is there, from one writer
Whole(chunks) == \E w \in Procs : \A i \in 1..BaselineChunks : chunks[i] = w

\* File::open(&path_to_file)?; serde_json::from_reader(&mut file)?
CloseLoad(p) ==
    /\ proc[p].pc = "load"
    /\ proc' = [proc EXCEPT
            ![p].base_read = IF Whole(base_file.chunks) THEN "complete" ELSE "partial",
            ![p].pc = IF Whole(base_file.chunks) THEN "done" ELSE "failed"]
    /\ UNCHANGED <<config_toml, cfg_lock, base_file>>
    /\ ConcFrame

\* File::create(&path_to_file)?: creates the file or truncates it
CloseCreate(p) ==
    /\ proc[p].pc = "create"
    /\ base_file' = [exists |-> TRUE, chunks |-> [i \in 1..BaselineChunks |-> 0]]
    /\ proc' = [proc EXCEPT ![p].pc = "write", ![p].pos = 0]
    /\ UNCHANGED <<config_toml, cfg_lock>>
    /\ ConcFrame

\* serde_json::to_writer_pretty(&mut file, artifact)?: one write at the
\* handle's offset after another
CloseWrite(p) ==
    /\ proc[p].pc = "write"
    /\ base_file' = [base_file EXCEPT !.chunks[proc[p].pos + 1] = p]
    /\ proc' = [proc EXCEPT ![p].pos = @ + 1,
                            ![p].pc = IF proc[p].pos + 1 = BaselineChunks THEN "done"
                                      ELSE "write"]
    /\ UNCHANGED <<config_toml, cfg_lock>>
    /\ ConcFrame

NextConc ==
    \E p \in Procs :
        \/ OpenExists(p)
        \/ OpenCreateNew(p)
        \/ OpenLockExclusive(p)
        \/ OpenWriteAll(p)
        \/ OpenUnlock(p)
        \/ OpenFile(p)
        \/ OpenLockShared(p)
        \/ OpenRead(p)
        \/ CloseExists(p)
        \/ CloseLoad(p)
        \/ CloseCreate(p)
        \/ CloseWrite(p)

SpecConc == InitConc /\ [][NextConc]_vars

\* C1: no process reads an empty or partly written Egress.toml: every read
\* made under the shared lock sees the complete default config.
C1_ConfigReadComplete ==
    \A p \in Procs : proc[p].cfg_read \in {"none", "complete"}

\* C2: a process that finds the baseline file loads the complete baseline,
\* never a partly written one.
C2_BaselineReadComplete ==
    \A p \in Procs : proc[p].base_read \in {"none", "complete"}

====
